---- MODULE Spec2Model ----
(***************************************************************************)
(* learning-record: the hand-written parser of the time-tracking log       *)
(* (src/src/parser.rs) and the weekly aggregation (src/src/processing.rs). *)
(*                                                                         *)
(* Spec models Parser::parse_file: a source text is drawn at Init and the  *)
(* parse functions run one loop iteration per step.  A char is a string of *)
(* one character, the source a sequence of them.                           *)
(*                                                                         *)
(* SpecWeekly models calc_weekly_records: a File and a reference moment    *)
(* are drawn at Init and the function is run statement by statement.       *)
(* A NaiveDate is its day number (weekday = day number modulo 7, 0 = Mon), *)
(* a NaiveTime its second of the day, and DateTime<Local> is taken in      *)
(* naive local time (no daylight-saving shift).                            *)
(***************************************************************************)
EXTENDS Integers, Sequences, FiniteSets, TLC

(* the Parser's fields, the locals of its parse functions, and its result *)
VARIABLES source, start, current, line, column,
          pc, settings, records, date, events, tags, tag_vec, info,
          toml, result, file_at, day_at

(* calc_weekly_records' arguments, locals and result *)
VARIABLES today, file, wpc, start_weekday, start_time, wdate, start_date,
          sum, ri, ei, ii, added, wresult

pvars == <<source, start, current, line, column,
           pc, settings, records, date, events, tags, tag_vec, info,
           toml, result, file_at, day_at>>

wvars == <<today, file, wpc, start_weekday, start_time, wdate, start_date,
           sum, ri, ei, ii, added, wresult>>

vars == <<pvars, wvars>>

----------------------------------------------------------------------------
(* Bounds of the weekly model *)
MaxRecords == 2
MaxInfos == 3
BaseDay == 16

(* the start.time of the settings the model draws: 08:00:00 *)
SettingsTime == 8 * 3600

(* Program constants *)
DaysPerWeek == 7
SecondsPerDay == 24 * 3600
DefaultStartTime == 21600

None == [some |-> FALSE]
Some(v) == [some |-> TRUE, val |-> v]

Weekday(day) == day % DaysPerWeek

DateTime(d, t) == [day |-> d, time |-> t]

(* NaiveDateTime's ordering: by date, then by time of day *)
DtLess(a, b) == a.day < b.day \/ (a.day = b.day /\ a.time < b.time)

(* today - chrono::Duration::days(n) *)
MinusDays(dt, n) == DateTime(dt.day - n, dt.time)

PlusDays(dt, n) == DateTime(dt.day + n, dt.time)

(* DateTime::with_time *)
WithTime(dt, t) == DateTime(dt.day, t)

(* NaiveTime += TimeDelta: overflowing addition, the day overflow dropped *)
AddWrappingNoWrap(t, d) == t + d
AddWrapping(t, d) == (t + d) % SecondsPerDay

(* the anchor (start_weekday, start_time) of lines 15-21 *)
Anchor(opt, now) ==
    IF opt.some
    THEN <<opt.val.weekday, opt.val.time>>
    ELSE <<Weekday(MinusDays(now, DaysPerWeek).day), DefaultStartTime>>

(* the branch of lines 25-30: today is on the anchor weekday *)
SameWeekdayStartNoWeekBack(now, anchorTime) == now
SameWeekdayStart(now, anchorTime) ==
    IF now.time < anchorTime THEN MinusDays(now, DaysPerWeek) ELSE now

(* the condition of line 53 under which an EventInfo is skipped *)
SkipInfoAtStart(event_datetime, window) ==
    ~DtLess(window, event_datetime)
SkipInfo(event_datetime, window) ==
    DtLess(event_datetime, window)
        /\ DtLess(event_datetime, PlusDays(window, DaysPerWeek))

(* the condition of line 47 under which a DayRecord is skipped whole *)
SkipRecord(day_record, window) == day_record.date < window.day

----------------------------------------------------------------------------
(* Scanner: the cursor of the Parser (parser.rs lines 289-385) *)

NL == "\n"
Digits == {"0", "1", "2", "3", "4", "5", "6", "7", "8", "9"}
Whitespace == {" ", NL}
Alphabet ==
    Digits \cup Whitespace \cup {"-", "[", "]", "(", ")", ":", ",", "h", "m", "s",
                                 "x", "a", "b", "k"}

(* the cursor: the Parser's fields but the source *)
Cursor == [start |-> start, current |-> current, line |-> line, column |-> column]

Ok(v, p) == [ok |-> TRUE, val |-> v, p |-> p]

(* make_error: the kind with the cursor's line and column *)
MakeError(kind, p) == [kind |-> kind, line |-> p.line, column |-> p.column]
Err(kind, p) == [ok |-> FALSE, err |-> MakeError(kind, p), p |-> p]

Peek(p) == IF p.current < Len(source) THEN Some(source[p.current + 1]) ELSE None

(* advance: current grows even at the end of the input *)
Advance(p) ==
    LET c == Peek(p)
    IN [p EXCEPT !.current = @ + 1,
                 !.line = IF c.some /\ c.val = NL THEN @ + 1 ELSE @,
                 !.column = IF c.some THEN (IF c.val = NL THEN 1 ELSE @ + 1) ELSE @]

Clear(p) == [p EXCEPT !.start = p.current]

(* collect: source.get(start..current), then clear; None leaves the cursor *)
Collect(p) ==
    IF p.start <= p.current /\ p.current <= Len(source)
    THEN [some |-> TRUE, val |-> SubSeq(source, p.start + 1, p.current), p |-> Clear(p)]
    ELSE [some |-> FALSE, p |-> p]

(* while matches!(self.peek(), Some(c) if c in S) { self.advance(); } *)
RECURSIVE AdvanceWhile(_, _)
AdvanceWhile(p, S) ==
    IF Peek(p).some /\ Peek(p).val \in S THEN AdvanceWhile(Advance(p), S) ELSE p

SkipSpace(p) == Clear(AdvanceWhile(p, Whitespace \ {NL}))

ExtractUntil(p, c) == AdvanceWhile(p, Alphabet \ {c})

ExtractNum(p) ==
    LET q == AdvanceWhile(p, Digits)
        c == Collect(q)
    IN IF c.some THEN Ok(c.val, c.p) ELSE Err("UnexpectedEof", q)

ExpectChars(p, chars) ==
    IF Peek(p).some
    THEN IF Peek(p).val \in chars
         THEN Ok(Peek(p).val, Advance(p))
         ELSE [ok |-> FALSE, p |-> p,
               err |-> [kind |-> "ExpectedChars", line |-> p.line, column |-> p.column,
                        expected |-> chars, found |-> Peek(p).val]]
    ELSE Err("UnexpectedEof", p)

ExpectChar(p, c) == ExpectChars(p, {c})

(* expect_string: the chars in turn, up to the first that fails *)
RECURSIVE ExpectString(_, _)
ExpectString(p, s) ==
    IF s = <<>> THEN Ok(<<>>, p)
    ELSE LET r == ExpectChar(p, Head(s))
         IN IF r.ok THEN ExpectString(r.p, Tail(s)) ELSE r

----------------------------------------------------------------------------
(* Numbers: str::parse of a run of decimal digits *)

DigitValue(c) ==
    CHOOSE v \in 0..9 : <<"0", "1", "2", "3", "4", "5", "6", "7", "8", "9">>[v + 1] = c

RECURSIVE StripZeros(_)
StripZeros(ds) == IF ds # <<>> /\ Head(ds) = "0" THEN StripZeros(Tail(ds)) ELSE ds

(* a < b for digit strings of one length *)
RECURSIVE DigitsLess(_, _)
DigitsLess(a, b) ==
    IF a = <<>> THEN FALSE
    ELSE IF Head(a) # Head(b) THEN DigitValue(Head(a)) < DigitValue(Head(b))
    ELSE DigitsLess(Tail(a), Tail(b))

(* the number written ds is at most the number written max *)
AtMost(ds, max) ==
    LET d == StripZeros(ds)
    IN Len(d) < Len(max) \/ (Len(d) = Len(max) /\ ~DigitsLess(max, d))

I32Max == <<"2", "1", "4", "7", "4", "8", "3", "6", "4", "7">>
U32Max == <<"4", "2", "9", "4", "9", "6", "7", "2", "9", "5">>
I64Max == <<"9", "2", "2", "3", "3", "7", "2", "0", "3", "6", "8", "5", "4", "7", "7",
            "5", "8", "0", "7">>

(* The value of a digit string, held exactly up to ValueCap and as ValueCap *)
(* above it.  Every comparison the parser makes with a parsed number (the  *)
(* year, month and day of a date, the hour and minute of a time) has the   *)
(* same answer for ValueCap as for any greater number; the magnitudes of   *)
(* the durations the model draws are below it, and so within TimeDelta's   *)
(* range.                                                                  *)
ValueCap == 500000
RECURSIVE ValueFrom(_, _)
ValueFrom(ds, acc) ==
    IF ds = <<>> THEN acc
    ELSE LET v == acc * 10 + DigitValue(Head(ds))
         IN ValueFrom(Tail(ds), IF v > ValueCap THEN ValueCap ELSE v)

(* s.parse::<T>() of a run of digits: Err on the empty string and on a     *)
(* number greater than T::MAX                                              *)
ParseNum(ds, max) ==
    IF ds = <<>> \/ ~AtMost(ds, max) THEN None ELSE Some(ValueFrom(ds, 0))

----------------------------------------------------------------------------
(* Grammar: the parse functions without a loop over the input's lines *)

(* a panic of the program: what .expect() does with an Err *)
Panic(message, p) == [ok |-> FALSE, err |-> [kind |-> "Panic", message |-> message], p |-> p]

IsLeapYear(y) == y % 4 = 0 /\ (y % 100 # 0 \/ y % 400 = 0)

DaysInMonth(y, m) ==
    IF m = 2 THEN (IF IsLeapYear(y) THEN 29 ELSE 28)
    ELSE IF m \in {4, 6, 9, 11} THEN 30 ELSE 31

(* NaiveDate::from_ymd_opt for a year that is not negative: 262142 is the  *)
(* last year of a NaiveDate                                                *)
FromYmdOpt(y, m, d) ==
    IF y <= 262142 /\ m \in 1..12 /\ d >= 1 /\ d <= DaysInMonth(y, m)
    THEN Some(<<y, m, d>>) ELSE None

(* NaiveTime::from_hms_opt(h, m, 0), as a second of the day *)
FromHmOpt(h, m) == IF h < 24 /\ m < 60 THEN Some(h * 3600 + m * 60) ELSE None

(* parse_date, lines 123-140 *)
ParseDate(p) ==
    LET y == ExtractNum(p)
    IN IF ~y.ok THEN y
       ELSE IF ~ParseNum(y.val, I32Max).some THEN Panic("failed to parse year", y.p)
       ELSE LET d1 == ExpectChar(y.p, "-")
       IN IF ~d1.ok THEN d1
       ELSE LET m == ExtractNum(Clear(d1.p))
       IN IF ~m.ok THEN m
       ELSE IF ~ParseNum(m.val, U32Max).some THEN Panic("failed to parse month", m.p)
       ELSE LET d2 == ExpectChar(m.p, "-")
       IN IF ~d2.ok THEN d2
       ELSE LET d == ExtractNum(Clear(d2.p))
       IN IF ~d.ok THEN d
       ELSE IF ~ParseNum(d.val, U32Max).some THEN Panic("failed to parse day", d.p)
       ELSE LET q == Clear(d.p)
                ymd == FromYmdOpt(ParseNum(y.val, I32Max).val, ParseNum(m.val, U32Max).val,
                                  ParseNum(d.val, U32Max).val)
       IN IF ymd.some THEN Ok(ymd.val, q) ELSE Err("InvalidDate", q)

(* parse_tag, lines 187-221 *)
ParseTag(p) ==
    LET q == AdvanceWhile(SkipSpace(p), Alphabet \ (Whitespace \cup {"]", "("}))
        t == Collect(q)
    IN IF ~t.some THEN Err("UnexpectedEof", q)
       ELSE IF Peek(t.p).some /\ Peek(t.p).val = "("
       THEN LET d == AdvanceWhile(Clear(Advance(t.p)), Alphabet \ {")"})
                r == Collect(d)
            IN Ok([title |-> t.val, detail |-> IF r.some THEN Some(r.val) ELSE None],
                  Clear(Advance(r.p)))
       ELSE Ok([title |-> t.val, detail |-> None], t.p)

UnitIndex(unit) == IF unit = "h" THEN 0 ELSE IF unit = "m" THEN 1 ELSE 2

(* the duration loop of parse_event_info, lines 244-272: i is the loop's   *)
(* variable, hms the magnitudes found so far                               *)
RECURSIVE DurationLoop(_, _, _)
DurationLoop(p, i, hms) ==
    IF i >= Len(hms) THEN Ok(hms, p)
    ELSE LET n == ExtractNum(p)
    IN IF ~n.ok THEN Ok(hms, n.p)
       ELSE IF ~ParseNum(n.val, I64Max).some THEN Ok(hms, n.p)
       ELSE LET unit == Peek(n.p)
                q == Advance(n.p)
       IN IF ~unit.some THEN Err("UnexpectedEof", q)
          ELSE IF unit.val \notin {"h", "m", "s"} THEN Err("InvalidDurationFormat", q)
          ELSE IF UnitIndex(unit.val) < i THEN Err("InvalidDurationFormat", Clear(q))
          ELSE DurationLoop(Clear(q), UnitIndex(unit.val) + 1,
                            [hms EXCEPT ![UnitIndex(unit.val) + 1] =
                                            Some(ParseNum(n.val, I64Max).val)])

OrZero(opt) == IF opt.some THEN opt.val ELSE 0

(* parse_event_info, lines 223-287 *)
ParseEventInfo(p) ==
    LET h == ExtractNum(p)
    IN IF ~h.ok THEN h
       ELSE IF ~ParseNum(h.val, U32Max).some THEN Err("UnexpectedEof", h.p)
       ELSE LET c == ExpectChar(h.p, ":")
       IN IF ~c.ok THEN c
       ELSE LET m == ExtractNum(Clear(c.p))
       IN IF ~m.ok THEN m
       ELSE IF ~ParseNum(m.val, U32Max).some THEN Err("UnexpectedEof", m.p)
       ELSE LET dash == ExpectChar(SkipSpace(m.p), "-")
       IN IF ~dash.ok THEN dash
       ELSE LET l == DurationLoop(SkipSpace(dash.p), 0, <<None, None, None>>)
       IN IF ~l.ok THEN l
       ELSE IF \A k \in 1..Len(l.val) : ~l.val[k].some
            THEN Err("InvalidDurationFormat", l.p)
       ELSE LET time == FromHmOpt(ParseNum(h.val, U32Max).val, ParseNum(m.val, U32Max).val)
       IN IF ~time.some THEN Err("InvalidDurationFormat", l.p)
          ELSE Ok([time |-> time.val,
                   duration |-> OrZero(l.val[1]) * 3600 + OrZero(l.val[2]) * 60
                                    + OrZero(l.val[3])], l.p)

(* toml::from_str::<Settings>, a library: of the texts the model draws,    *)
(* the one line "k" stands for a document that holds start.weekday and     *)
(* start.time, and every other text fails to deserialize                   *)
FromToml(text) ==
    IF text = <<"k", NL>> THEN Some([weekday |-> 0, time |-> SettingsTime]) ELSE None

----------------------------------------------------------------------------
(* Inputs of the parser model *)
MaxPairs == 3
MaxTagChars == 3
MaxSettingsLines == 2
(* the Tags the model lets parse_tags collect before it stops following it *)
MaxTags == 3

SeqsUpTo(S, n) == UNION {[1..k -> S] : k \in 0..n}

RECURSIVE Concat(_)
Concat(ss) == IF ss = <<>> THEN <<>> ELSE Head(ss) \o Concat(Tail(ss))

(* decimal numbers as written by format!("{}") *)
YearTexts ==
    {<<"2", "0", "2", "3">>, <<"2", "0", "2", "4">>,
     <<"2", "1", "4", "7", "4", "8", "3", "6", "4", "8">>}
MonthTexts ==
    {<<"0">>, <<"2">>, <<"4">>, <<"1", "2">>, <<"1", "3">>,
     <<"4", "2", "9", "4", "9", "6", "7", "2", "9", "6">>}
DayTexts == {<<"1">>, <<"2", "9">>, <<"3", "0">>, <<"3", "1">>, <<"3", "2">>}

(* "{y}-{m}-{d}\n" *)
DateLine(y, m, d) == y \o <<"-">> \o m \o <<"-">> \o d \o <<NL>>
DateLines == {DateLine(y, m, d) : y \in YearTexts, m \in MonthTexts, d \in DayTexts}

Day1 == DateLine(<<"2", "0", "2", "4">>, <<"1">>, <<"1">>)
OtherDateLines ==
    {<<"a", NL>>, <<"2", "0", "2", "4", "-", NL>>, <<"2", "0", "2", "4", "-", "1", "-", NL>>,
     <<"2", "0", "2", "4", NL>>, <<"2", "0", "2", "4", "-", "1", "-", "1", " ", NL>>,
     <<"2", "0", "2", "4", "-", "1", "-", "1">>, <<" ", NL>>, <<NL, NL>> \o Day1}

(* a duration: the k-th magnitude-unit pair has the magnitude PairNumber(k) *)
PairUnits == {"h", "m", "s", "x"}
PairNumber(k) == IF k % 3 = 1 THEN <<"1">> ELSE IF k % 3 = 2 THEN <<"2">> ELSE <<"3", "0">>
DurationText(us) == Concat([k \in 1..Len(us) |-> PairNumber(k) \o <<us[k]>>])
UnitSeqs == SeqsUpTo(PairUnits, MaxPairs)

(* the EventInfo "1:0 - <duration>" *)
InfoText(us) == <<"1", ":", "0", " ", "-", " ">> \o DurationText(us)
DurationInput(us) == Day1 \o InfoText(us) \o <<NL>>

(* a Tags group: '[', up to MaxTagChars chars, ']' *)
TagChars == {"a", " ", "(", ")"}
TagGroup(body) == <<"[">> \o body \o <<"]">>
TagBodies == SeqsUpTo(TagChars, MaxTagChars)
OpenTagGroups ==
    {<<"[", "a">>, <<"[", "a", "(", "b">>, <<"[", "a", NL>>, <<"[", "a", " ", NL, "]">>}

EventLines ==
    {tg \o InfoText(us) \o e :
        tg \in {<<>>, TagGroup(<<"a">>)}, us \in UnitSeqs, e \in {<<>>, <<NL>>}}
    \cup {tg \o rest :
            tg \in {TagGroup(b) : b \in TagBodies} \cup OpenTagGroups,
            rest \in {<<>>, <<NL>>, <<" ">> \o InfoText(<<"h">>) \o <<NL>>}}
    \cup {<<"2", "5", ":", "0", "-", "1", "h", NL>>, <<"1", ":", "6", "0", "-", "1", "h", NL>>,
          <<"1", ":", "0", "-", "1">>, <<"1", ":", "0", "1", "h", NL>>, <<" ", NL>>,
          <<"1", ":", "0", "-", "9", "2", "2", "3", "3", "7", "2", "0", "3", "6", "8", "5",
            "4", "7", "7", "5", "8", "0", "8", "h", NL>>,
          InfoText(<<"h">>) \o <<",", " ">> \o InfoText(<<"m", "s">>) \o <<NL>>,
          InfoText(<<"s">>) \o <<"2", ":", "0", "-", "1", "h", NL>>,
          InfoText(<<"h">>) \o <<NL>> \o TagGroup(<<"a">>) \o InfoText(<<"m">>) \o <<NL, NL>>
              \o DateLine(<<"2", "0", "2", "3">>, <<"2">>, <<"1">>) \o InfoText(<<"s">>)}

(* a settings block: the opening line, up to MaxSettingsLines lines, and   *)
(* the closing line or the end of the input                                *)
Delimiter == <<"-", "-", "-", NL>>
SettingsLines == {<<"k", NL>>, <<"a", NL>>, <<"-", NL>>, <<NL>>, <<"-", "-", "k", NL>>}
SettingsBodies == {Concat(ls) : ls \in SeqsUpTo(SettingsLines, MaxSettingsLines)}
SettingsInput(body) == Delimiter \o body \o Delimiter
SettingsBlocks ==
    {SettingsInput(b) : b \in SettingsBodies}
    \cup {Delimiter \o b : b \in SettingsBodies}
    \cup {<<"-", "-", NL>>, <<"-", "-", "-">>, <<" ">> \o SettingsInput(<<"k", NL>>)}

Inputs ==
    {<<>>} \cup DateLines \cup OtherDateLines
    \cup {Day1 \o e : e \in EventLines}
    \cup {b \o r : b \in SettingsBlocks,
                   r \in {<<>>, Day1, <<NL>> \o Day1 \o InfoText(<<"h">>) \o <<NL>>}}

----------------------------------------------------------------------------
(* calc_weekly_records is not running *)
WeeklyIdle ==
    /\ today = DateTime(0, 0)
    /\ file = [settings |-> None, records |-> <<>>]
    /\ wpc = "idle"
    /\ start_weekday = 0
    /\ start_time = 0
    /\ wdate = DateTime(0, 0)
    /\ start_date = DateTime(0, 0)
    /\ sum = 0
    /\ ri = 1 /\ ei = 1 /\ ii = 1
    /\ added = {}
    /\ wresult = None

(* the Parser is not running *)
ParserIdle ==
    /\ source = <<>>
    /\ start = 0 /\ current = 0 /\ line = 1 /\ column = 1
    /\ pc = "idle"
    /\ settings = None
    /\ records = <<>>
    /\ date = <<>>
    /\ events = <<>>
    /\ tags = None
    /\ tag_vec = <<>>
    /\ info = <<>>
    /\ toml = None
    /\ result = None
    /\ file_at = 0 /\ day_at = 0

----------------------------------------------------------------------------
(* Parser::parse_file *)

(* Parser::new, lines 44-52 *)
Init ==
    /\ source \in Inputs
    /\ start = 0 /\ current = 0 /\ line = 1 /\ column = 1
    /\ pc = "parse_file"
    /\ settings = None
    /\ records = <<>>
    /\ date = <<>>
    /\ events = <<>>
    /\ tags = None
    /\ tag_vec = <<>>
    /\ info = <<>>
    /\ toml = None
    /\ result = None
    /\ file_at = 0 /\ day_at = 0
    /\ WeeklyIdle

SetCursor(p) ==
    /\ start' = p.start
    /\ current' = p.current
    /\ line' = p.line
    /\ column' = p.column

(* an Err (or a panic) leaves parse_file through every caller's `?` *)
Fail(r) ==
    /\ SetCursor(r.p)
    /\ result' = Some(r.err)
    /\ pc' = "done"

(* lines 55-60 *)
ParseFileBegin ==
    /\ pc = "parse_file"
    /\ LET p == SkipSpace(Cursor)
       IN /\ SetCursor(p)
          /\ pc' = IF Peek(p).some /\ Peek(p).val = "-" THEN "parse_settings"
                                                         ELSE "blank_lines"
    /\ UNCHANGED <<source, settings, records, date, events, tags, tag_vec, info,
                   toml, result, file_at, day_at>>
    /\ UNCHANGED wvars

(* lines 81-82 *)
ParseSettingsBegin ==
    /\ pc = "parse_settings"
    /\ LET r == ExpectString(Cursor, Delimiter)
       IN IF r.ok THEN SetCursor(Clear(r.p)) /\ pc' = "settings_loop" /\ UNCHANGED result
                  ELSE Fail(r)
    /\ UNCHANGED <<source, settings, records, date, events, tags, tag_vec, info,
                   toml, file_at, day_at>>
    /\ UNCHANGED wvars

(* lines 83-97: one iteration of the loop of parse_settings *)
ParseSettingsLine ==
    /\ pc = "settings_loop"
    /\ Peek(Cursor).some
    /\ LET e == ExpectChar(ExtractUntil(Cursor, NL), NL)
       IN IF ~e.ok THEN Fail(e) /\ UNCHANGED <<settings, toml>>
          ELSE IF ~(Peek(e.p).some /\ Peek(e.p).val = "-")
          THEN SetCursor(e.p) /\ UNCHANGED <<pc, result, settings, toml>>
          ELSE LET c == Collect(e.p)
          IN IF ~c.some THEN Fail(Err("UnexpectedEof", e.p)) /\ UNCHANGED <<settings, toml>>
             ELSE LET d == ExpectString(c.p, Delimiter)
             IN IF ~d.ok THEN Fail(d) /\ UNCHANGED <<settings, toml>>
                ELSE /\ toml' = Some(c.val)
                     /\ IF FromToml(c.val).some
                        THEN /\ settings' = FromToml(c.val)
                             /\ SetCursor(d.p)
                             /\ pc' = "blank_lines"
                             /\ UNCHANGED result
                        ELSE Fail(Err("TomlError", d.p)) /\ UNCHANGED settings
    /\ UNCHANGED <<source, records, date, events, tags, tag_vec, info, file_at, day_at>>
    /\ UNCHANGED wvars

(* lines 83, 99: the input ends inside the settings block *)
ParseSettingsEof ==
    /\ pc = "settings_loop"
    /\ ~Peek(Cursor).some
    /\ Fail(Err("UnexpectedEof", Cursor))
    /\ UNCHANGED <<source, settings, records, date, events, tags, tag_vec, info,
                   toml, file_at, day_at>>
    /\ UNCHANGED wvars

(* lines 62-65 and 71-74 *)
SkipBlankLines ==
    /\ pc = "blank_lines"
    /\ SetCursor(Clear(AdvanceWhile(Cursor, {NL})))
    /\ pc' = "records"
    /\ UNCHANGED <<source, settings, records, date, events, tags, tag_vec, info,
                   toml, result, file_at, day_at>>
    /\ UNCHANGED wvars

(* lines 68, 77: the input is exhausted *)
ParseFileEnd ==
    /\ pc = "records"
    /\ ~Peek(Cursor).some
    /\ result' = Some([kind |-> "Ok", file |-> [settings |-> settings, records |-> records]])
    /\ pc' = "done"
    /\ UNCHANGED <<source, start, current, line, column, settings, records, date, events,
                   tags, tag_vec, info, toml, file_at, day_at>>
    /\ UNCHANGED wvars

(* lines 68-69 and 103-108: a DayRecord's date line *)
ParseDayRecordBegin ==
    /\ pc = "records"
    /\ Peek(Cursor).some
    /\ file_at' = current
    /\ LET r == ParseDate(Cursor)
       IN IF ~r.ok THEN Fail(r) /\ UNCHANGED <<date, events>>
          ELSE LET e == ExpectChar(SkipSpace(r.p), NL)
          IN IF ~e.ok THEN Fail(e) /\ UNCHANGED <<date, events>>
             ELSE /\ SetCursor(Clear(e.p))
                  /\ date' = r.val
                  /\ events' = <<>>
                  /\ pc' = "events"
                  /\ UNCHANGED result
    /\ UNCHANGED <<source, settings, records, tags, tag_vec, info, toml, day_at>>
    /\ UNCHANGED wvars

(* lines 110-114, 120 and 69: the DayRecord ends at a blank line or at the *)
(* end of the input                                                        *)
ParseDayRecordEnd ==
    /\ pc = "events"
    /\ IF Peek(Cursor).some THEN Peek(Cursor).val = NL ELSE TRUE
    /\ SetCursor(IF Peek(Cursor).some THEN Clear(Advance(Cursor)) ELSE Cursor)
    /\ records' = Append(records, [date |-> date, events |-> events])
    /\ pc' = "blank_lines"
    /\ UNCHANGED <<source, settings, date, events, tags, tag_vec, info, toml, result,
                   file_at, day_at>>
    /\ UNCHANGED wvars

(* lines 110, 116 and 143-150: an Event begins *)
ParseEventBegin ==
    /\ pc = "events"
    /\ Peek(Cursor).some /\ Peek(Cursor).val # NL
    /\ day_at' = current
    /\ info' = <<>>
    /\ IF Peek(Cursor).val = "["
       THEN /\ SetCursor(Clear(ExpectChar(Cursor, "[").p))
            /\ tag_vec' = <<>>
            /\ pc' = "tags"
            /\ UNCHANGED tags
       ELSE /\ tags' = None
            /\ pc' = "infos"
            /\ UNCHANGED <<start, current, line, column, tag_vec>>
    /\ UNCHANGED <<source, settings, records, date, events, toml, result, file_at>>
    /\ UNCHANGED wvars

(* lines 175-177: one iteration of the loop of parse_tags *)
ParseTagsNext ==
    /\ pc = "tags"
    /\ Peek(Cursor).some /\ Peek(Cursor).val # "]"
    /\ Len(tag_vec) < MaxTags
    /\ LET r == ParseTag(Cursor)
       IN IF ~r.ok THEN Fail(r) /\ UNCHANGED tag_vec
          ELSE /\ SetCursor(r.p)
               /\ tag_vec' = Append(tag_vec, r.val)
               /\ UNCHANGED <<pc, result>>
    /\ UNCHANGED <<source, settings, records, date, events, tags, info, toml,
                   file_at, day_at>>
    /\ UNCHANGED wvars

(* lines 175 and 179-184: the loop of parse_tags ends *)
ParseTagsEnd ==
    /\ pc = "tags"
    /\ ~(Peek(Cursor).some /\ Peek(Cursor).val # "]")
    /\ LET e == ExpectChar(SkipSpace(Cursor), "]")
       IN IF ~e.ok THEN Fail(e) /\ UNCHANGED tags
          ELSE /\ SetCursor(Clear(e.p))
               /\ tags' = Some(tag_vec)
               /\ pc' = "infos"
               /\ UNCHANGED result
    /\ UNCHANGED <<source, settings, records, date, events, tag_vec, info, toml,
                   file_at, day_at>>
    /\ UNCHANGED wvars

(* lines 151 and 158-165: one iteration of the loop of parse_event *)
ParseEventNext ==
    /\ pc = "infos"
    /\ Peek(Cursor).some /\ Peek(Cursor).val # NL
    /\ LET r == ParseEventInfo(SkipSpace(Cursor))
       IN IF ~r.ok THEN Fail(r) /\ UNCHANGED info
          ELSE LET q == SkipSpace(r.p)
               IN /\ SetCursor(IF Peek(q).some /\ Peek(q).val = ","
                               THEN Clear(Advance(q)) ELSE q)
                  /\ info' = Append(info, r.val)
                  /\ UNCHANGED <<pc, result>>
    /\ UNCHANGED <<source, settings, records, date, events, tags, tag_vec, toml,
                   file_at, day_at>>
    /\ UNCHANGED wvars

(* lines 151-156, 167 and 116: the Event ends at the line's end or at the  *)
(* end of the input                                                        *)
ParseEventEnd ==
    /\ pc = "infos"
    /\ IF Peek(Cursor).some THEN Peek(Cursor).val = NL ELSE TRUE
    /\ SetCursor(IF Peek(Cursor).some THEN Clear(Advance(Cursor)) ELSE Cursor)
    /\ events' = Append(events, [tags |-> tags, info |-> info])
    /\ pc' = "events"
    /\ UNCHANGED <<source, settings, records, date, tags, tag_vec, info, toml, result,
                   file_at, day_at>>
    /\ UNCHANGED wvars

Next ==
    \/ ParseFileBegin
    \/ ParseSettingsBegin
    \/ ParseSettingsLine
    \/ ParseSettingsEof
    \/ SkipBlankLines
    \/ ParseFileEnd
    \/ ParseDayRecordBegin
    \/ ParseDayRecordEnd
    \/ ParseEventBegin
    \/ ParseTagsNext
    \/ ParseTagsEnd
    \/ ParseEventNext
    \/ ParseEventEnd

Spec == Init /\ [][Next]_vars

----------------------------------------------------------------------------
(* Properties of parse_file *)

Done == pc = "done"
Parsed == Done /\ result.val.kind = "Ok"

ErrorKinds ==
    {"ExpectedChars", "UnexpectedEof", "InvalidDate", "InvalidDurationFormat", "TomlError"}

(* the Events of the parsed File *)
ParsedEvents ==
    UNION {{result.val.file.records[r].events[e] :
                e \in 1..Len(result.val.file.records[r].events)} :
              r \in 1..Len(result.val.file.records)}

(* one to three pairs, the unit letters in the order h, m, s, none twice *)
OrderedUnits(us) ==
    /\ Len(us) \in 1..3
    /\ \A k \in 1..Len(us) : us[k] \in {"h", "m", "s"}
    /\ \A j, k \in 1..Len(us) : j < k => UnitIndex(us[j]) < UnitIndex(us[k])

UnitSeconds(unit) == IF unit = "h" THEN 3600 ELSE IF unit = "m" THEN 60 ELSE 1

RECURSIVE ClaimedSeconds(_, _)
ClaimedSeconds(us, k) ==
    IF k > Len(us) THEN 0
    ELSE ValueFrom(PairNumber(k), 0) * UnitSeconds(us[k]) + ClaimedSeconds(us, k + 1)

(* C4: a duration of one to three pairs with the units in the order h, m,  *)
(* s parses to hours*3600 + minutes*60 + seconds; a repeated, out-of-order *)
(* or unrecognized unit letter, after whatever pair, and an empty duration *)
(* fail with InvalidDurationFormat.                                        *)
C4_DurationGrammar ==
    Done =>
        \A us \in UnitSeqs :
            source = DurationInput(us) =>
                IF OrderedUnits(us)
                THEN /\ result.val.kind = "Ok"
                     /\ \E ev \in ParsedEvents :
                            /\ Len(ev.info) = 1
                            /\ ev.info[1].duration = ClaimedSeconds(us, 1)
                ELSE result.val.kind = "InvalidDurationFormat"

(* a calendar date, by the lengths of the months *)
IsCalendarDate(y, m, d) ==
    /\ m \in 1..12
    /\ d >= 1
    /\ d <= <<31, IF IsLeapYear(y) THEN 29 ELSE 28, 31, 30, 31, 30, 31, 31, 30, 31, 30, 31>>[m]

(* C5: "{y}-{m}-{d}\n" parses to one DayRecord of that date without events *)
(* when (y, m, d) is a calendar date, and else fails with InvalidDate at   *)
(* line 1.                                                                 *)
C5_DateLine ==
    Done =>
        \A y \in YearTexts, m \in MonthTexts, d \in DayTexts :
            source = DateLine(y, m, d) =>
                IF IsCalendarDate(ValueFrom(y, 0), ValueFrom(m, 0), ValueFrom(d, 0))
                THEN /\ result.val.kind = "Ok"
                     /\ result.val.file.records =
                            <<[date |-> <<ValueFrom(y, 0), ValueFrom(m, 0), ValueFrom(d, 0)>>,
                               events |-> <<>>]>>
                ELSE /\ result.val.kind = "InvalidDate"
                     /\ result.val.line = 1

(* the whitespace-separated tokens of a Tags group's body *)
TokenCount(body) ==
    Cardinality({k \in 1..Len(body) :
                    body[k] \notin Whitespace /\ (k = 1 \/ body[k - 1] \in Whitespace)})

(* C6: every Tag of a parsed File has a title that is not empty and holds  *)
(* no whitespace, ']' or '('; a Tags group of plain tokens yields one Tag  *)
(* per token, wherever its whitespace lies.                                *)
C6_TagTitles ==
    Parsed =>
        /\ \A ev \in ParsedEvents :
              ev.tags.some =>
                  \A t \in 1..Len(ev.tags.val) :
                      /\ ev.tags.val[t].title # <<>>
                      /\ \A k \in 1..Len(ev.tags.val[t].title) :
                            ev.tags.val[t].title[k] \notin Whitespace \cup {"]", "("}
        /\ \A body \in SeqsUpTo({"a", " "}, MaxTagChars) :
              source = Day1 \o TagGroup(body) \o <<" ">> \o InfoText(<<"h">>) \o <<NL>> =>
                  \A ev \in ParsedEvents : Len(ev.tags.val) = TokenCount(body)

(* C7: every Event of a parsed File has at least one EventInfo, with or    *)
(* without a Tags group.                                                   *)
C7_EventHasInfo == Parsed => \A ev \in ParsedEvents : Len(ev.info) >= 1

(* the place after the first line of the source *)
RECURSIVE LineEnd(_)
LineEnd(i) == IF i >= Len(source) \/ source[i + 1] = NL THEN i + 1 ELSE LineEnd(i + 1)

(* the start of the first line at or after place i that starts with '-' *)
RECURSIVE FirstDashLine(_)
FirstDashLine(i) ==
    IF i >= Len(source) \/ source[i + 1] = "-" THEN i ELSE FirstDashLine(LineEnd(i))

(* C8: the text handed to the deserializer is the lines after the opening  *)
(* delimiter that precede the first line starting with '-': none when the  *)
(* line right after the opening delimiter starts with '-'.                 *)
C8_SettingsText ==
    toml.some => toml.val = SubSeq(source, LineEnd(0) + 1, FirstDashLine(LineEnd(0)))

(* C9: every iteration of a loop of the parse functions advances the       *)
(* cursor or leaves the loop.                                              *)
C9_LoopsAdvance ==
    [][/\ pc \in {"settings_loop", "tags", "infos"} /\ pc' = pc => current' > current
       /\ pc = "infos" /\ pc' = "events" => current' > day_at
       /\ pc = "events" /\ pc' = "blank_lines" => current' > file_at]_vars

(* C10: parse_file returns a File or a ParseError of one of the kinds with *)
(* the cursor's line and column; it never panics.                          *)
C10_NoPanic ==
    Done =>
        \/ result.val.kind = "Ok"
        \/ /\ result.val.kind \in ErrorKinds
           /\ result.val.line = line
           /\ result.val.column = column

----------------------------------------------------------------------------
(* Inputs of the weekly model *)
TodayTimes == {DefaultStartTime - 1, DefaultStartTime, SettingsTime}
Todays == {DateTime(BaseDay, t) : t \in TodayTimes}
SettingsSet ==
    {None} \cup {Some([weekday |-> w, time |-> SettingsTime]) :
                    w \in 0..(DaysPerWeek - 1)}
RecordDays == {BaseDay - DaysPerWeek, BaseDay, BaseDay + DaysPerWeek + 2}
EventInfos ==
    {[time |-> DefaultStartTime, duration |-> 43200],
     [time |-> SettingsTime, duration |-> 43200],
     [time |-> DefaultStartTime, duration |-> 90000]}

(* the events of a DayRecord holding the entries s: the first entry in an  *)
(* Event of its own, the others together in a second Event                 *)
EventsOf(s) ==
    IF Len(s) <= 1 THEN <<[tags |-> None, info |-> s]>>
    ELSE <<[tags |-> None, info |-> <<Head(s)>>], [tags |-> None, info |-> Tail(s)]>>

(* the DayRecords holding exactly k EventInfo entries *)
RecordsWith(k) ==
    {[date |-> d, events |-> EventsOf(s)] : d \in RecordDays, s \in [1..k -> EventInfos]}

(* the record lists of at most r DayRecords and n EventInfo entries *)
RECURSIVE FilesUpTo(_, _)
FilesUpTo(r, n) ==
    IF r = 0 THEN {<<>>}
    ELSE {<<>>} \cup
         UNION {{<<rec>> \o f : rec \in RecordsWith(k), f \in FilesUpTo(r - 1, n - k)} :
                    k \in 1..n}

Files == {[settings |-> s, records |-> f] :
            s \in SettingsSet, f \in FilesUpTo(MaxRecords, MaxInfos)}

----------------------------------------------------------------------------
(* calc_weekly_records *)

InitWeekly ==
    /\ today \in Todays
    /\ file \in Files
    /\ wpc = "check_is_past"
    /\ start_weekday = 0
    /\ start_time = 0
    /\ wdate = today
    /\ start_date = today
    /\ sum = 0
    /\ ri = 1 /\ ei = 1 /\ ii = 1
    /\ added = {}
    /\ wresult = None
    /\ ParserIdle

(* lines 11-13 with check_is_past, whose first statement returns Ok(()) *)
CheckIsPast ==
    /\ wpc = "check_is_past"
    /\ wpc' = "anchor"
    /\ UNCHANGED pvars
    /\ UNCHANGED <<today, file, start_weekday, start_time, wdate, start_date,
                   sum, ri, ei, ii, added, wresult>>

(* lines 15-21 *)
ResolveAnchor ==
    /\ wpc = "anchor"
    /\ start_weekday' = Anchor(file.settings, today)[1]
    /\ start_time' = Anchor(file.settings, today)[2]
    /\ wdate' = today
    /\ wpc' = "start"
    /\ UNCHANGED pvars
    /\ UNCHANGED <<today, file, start_date, sum, ri, ei, ii, added, wresult>>

(* lines 25-30 *)
StartOnAnchorWeekday ==
    /\ wpc = "start"
    /\ Weekday(today.day) = start_weekday
    /\ wdate' = SameWeekdayStart(today, start_time)
    /\ wpc' = "with_time"
    /\ UNCHANGED pvars
    /\ UNCHANGED <<today, file, start_weekday, start_time, start_date,
                   sum, ri, ei, ii, added, wresult>>

(* lines 31-34: one iteration of the while loop *)
StepBack ==
    /\ wpc \in {"start", "step_back"}
    /\ wpc = "start" => Weekday(today.day) # start_weekday
    /\ Weekday(wdate.day) # start_weekday
    /\ wdate' = MinusDays(wdate, 1)
    /\ wpc' = "step_back"
    /\ UNCHANGED pvars
    /\ UNCHANGED <<today, file, start_weekday, start_time, start_date,
                   sum, ri, ei, ii, added, wresult>>

(* lines 32, 36: the loop ends *)
StepBackDone ==
    /\ wpc = "step_back"
    /\ Weekday(wdate.day) = start_weekday
    /\ wpc' = "with_time"
    /\ UNCHANGED pvars
    /\ UNCHANGED <<today, file, start_weekday, start_time, wdate, start_date,
                   sum, ri, ei, ii, added, wresult>>

(* lines 39-45 *)
SetStartDate ==
    /\ wpc = "with_time"
    /\ start_date' = WithTime(wdate, start_time)
    /\ sum' = 0
    /\ ri' = 1 /\ ei' = 1 /\ ii' = 1
    /\ wpc' = "records"
    /\ UNCHANGED pvars
    /\ UNCHANGED <<today, file, start_weekday, start_time, wdate, added, wresult>>

(* lines 46-49: a DayRecord before the window's first date is passed over *)
SkipDayRecord ==
    /\ wpc = "records"
    /\ ri <= Len(file.records)
    /\ SkipRecord(file.records[ri], start_date)
    /\ ri' = ri + 1
    /\ UNCHANGED pvars
    /\ UNCHANGED <<today, file, wpc, start_weekday, start_time, wdate, start_date,
                   sum, ei, ii, added, wresult>>

(* lines 46, 50: the DayRecord's events are entered *)
EnterDayRecord ==
    /\ wpc = "records"
    /\ ri <= Len(file.records)
    /\ ~SkipRecord(file.records[ri], start_date)
    /\ ei' = 1 /\ ii' = 1
    /\ wpc' = "events"
    /\ UNCHANGED pvars
    /\ UNCHANGED <<today, file, start_weekday, start_time, wdate, start_date,
                   sum, ri, added, wresult>>

(* line 50: the events of the DayRecord are exhausted *)
LeaveDayRecord ==
    /\ wpc = "events"
    /\ ei > Len(file.records[ri].events)
    /\ ri' = ri + 1
    /\ wpc' = "records"
    /\ UNCHANGED pvars
    /\ UNCHANGED <<today, file, start_weekday, start_time, wdate, start_date,
                   sum, ei, ii, added, wresult>>

(* line 51: the EventInfo entries of the Event are exhausted *)
LeaveEvent ==
    /\ wpc = "events"
    /\ ei <= Len(file.records[ri].events)
    /\ ii > Len(file.records[ri].events[ei].info)
    /\ ei' = ei + 1 /\ ii' = 1
    /\ UNCHANGED pvars
    /\ UNCHANGED <<today, file, wpc, start_weekday, start_time, wdate, start_date,
                   sum, ri, added, wresult>>

(* lines 51-58: one EventInfo *)
ProcessInfo ==
    /\ wpc = "events"
    /\ ei <= Len(file.records[ri].events)
    /\ ii <= Len(file.records[ri].events[ei].info)
    /\ LET day_record == file.records[ri]
           event_info == day_record.events[ei].info[ii]
           event_datetime == DateTime(day_record.date, event_info.time)
       IN IF SkipInfo(event_datetime, start_date)
          THEN UNCHANGED <<sum, added>>
          ELSE /\ sum' = AddWrapping(sum, event_info.duration)
               /\ added' = added \cup {<<ri, ei, ii>>}
    /\ ii' = ii + 1
    /\ UNCHANGED pvars
    /\ UNCHANGED <<today, file, wpc, start_weekday, start_time, wdate, start_date,
                   ri, ei, wresult>>

(* line 62 *)
ReturnSum ==
    /\ wpc = "records"
    /\ ri > Len(file.records)
    /\ wresult' = Some([kind |-> "Ok", value |-> sum])
    /\ wpc' = "done"
    /\ UNCHANGED pvars
    /\ UNCHANGED <<today, file, start_weekday, start_time, wdate, start_date,
                   sum, ri, ei, ii, added>>

NextWeekly ==
    \/ CheckIsPast
    \/ ResolveAnchor
    \/ StartOnAnchorWeekday
    \/ StepBack
    \/ StepBackDone
    \/ SetStartDate
    \/ SkipDayRecord
    \/ EnterDayRecord
    \/ LeaveDayRecord
    \/ LeaveEvent
    \/ ProcessInfo
    \/ ReturnSum

SpecWeekly == InitWeekly /\ [][NextWeekly]_vars

----------------------------------------------------------------------------
(* Properties of calc_weekly_records *)

(* the places <<record, event, info>> of the EventInfo entries of a File *)
Positions(f) ==
    {p \in (1..Len(f.records)) \X (1..MaxInfos) \X (1..MaxInfos) :
        /\ p[2] <= Len(f.records[p[1]].events)
        /\ p[3] <= Len(f.records[p[1]].events[p[2]].info)}

InfoAt(f, p) == f.records[p[1]].events[p[2]].info[p[3]]

(* the absolute timestamp of an entry: DayRecord date + EventInfo time *)
TimestampAt(f, p) == DateTime(f.records[p[1]].date, InfoAt(f, p).time)

AtOrAfter(f, window) == {p \in Positions(f) : ~DtLess(TimestampAt(f, p), window)}

RECURSIVE DurationSum(_, _)
DurationSum(f, ps) ==
    IF ps = {} THEN 0
    ELSE LET p == CHOOSE q \in ps : TRUE
         IN InfoAt(f, p).duration + DurationSum(f, ps \ {p})

Finished == wpc = "done"

(* C1: calc_weekly_records returns Ok, and the entries whose duration was  *)
(* added to the total are exactly those whose timestamp is at or after the *)
(* window start; nothing bounds them from above.                           *)
C1_IncludedIffAtOrAfterStart ==
    Finished =>
        /\ wresult.some /\ wresult.val.kind = "Ok"
        /\ added = AtOrAfter(file, start_date)

(* a run in which an entry exactly at the window start was added, an entry *)
(* before it was left out and an entry a week or more after the window     *)
(* start, later than today, was added                                      *)
C1_Witness ==
    /\ Finished
    /\ \E p \in added : TimestampAt(file, p) = start_date
    /\ \E p \in Positions(file) \ added : DtLess(TimestampAt(file, p), start_date)
    /\ \E p \in added :
          /\ ~DtLess(TimestampAt(file, p), PlusDays(start_date, DaysPerWeek))
          /\ DtLess(today, TimestampAt(file, p))

(* the window start as the claim states it *)
ClaimedAnchor(f, now) ==
    IF f.settings.some
    THEN <<f.settings.val.weekday, f.settings.val.time>>
    ELSE <<Weekday(now.day - DaysPerWeek), DefaultStartTime>>

ClaimedWindowStart(now, aw, at) ==
    IF Weekday(now.day) = aw
    THEN IF now.time < at THEN DateTime(now.day - DaysPerWeek, at)
                          ELSE DateTime(now.day, at)
    ELSE DateTime(CHOOSE d \in (now.day - DaysPerWeek + 1)..(now.day - 1) :
                      Weekday(d) = aw, at)

(* C2: the window start is 7 days before today when today is on the anchor *)
(* weekday before the anchor time, today when it is on the anchor weekday  *)
(* at or after the anchor time, and else the nearest earlier date on the   *)
(* anchor weekday, each at the anchor time; the anchor is the settings' or *)
(* (weekday of today - 7 days, 06:00:00).                                  *)
C2_WindowStart ==
    wpc \in {"records", "events", "done"} =>
        start_date = ClaimedWindowStart(today, ClaimedAnchor(file, today)[1],
                                        ClaimedAnchor(file, today)[2])

(* a run with settings whose weekday is six days behind today's *)
C2_Witness ==
    /\ Finished
    /\ file.settings.some
    /\ start_date = DateTime(today.day - DaysPerWeek + 1, file.settings.val.time)

(* C3: the total is the sum of the included durations modulo 86400: a      *)
(* time of day, whatever the sum.                                          *)
C3_TotalIsSumModDay ==
    Finished =>
        /\ wresult.val.value \in 0..(SecondsPerDay - 1)
        /\ wresult.val.value =
              DurationSum(file, AtOrAfter(file, start_date)) % SecondsPerDay

(* a run whose included durations add up to 24 hours or more *)
C3_Witness ==
    /\ Finished
    /\ DurationSum(file, AtOrAfter(file, start_date)) >= SecondsPerDay
    /\ Cardinality(added) >= 2

====
